---- MODULE Spec2Model ----
(***************************************************************************)
(* College fee register (src/app.py): the students and fees tables, the    *)
(* requests that write them (admission, edit_student, delete_student,      *)
(* fees) with their notification tails, and the reads that derive the      *)
(* balance (student_profile, export_dues).                                 *)
(*                                                                         *)
(* The Flask server handles requests on concurrent threads, each with its  *)
(* own sqlite connection.  A SELECT runs in autocommit mode and sees the   *)
(* last committed state; the statements from the first INSERT / UPDATE /   *)
(* DELETE to conn.commit() are one transaction, serialised by sqlite's     *)
(* write lock.  So one action is one SELECT, or one write transaction, or  *)
(* one delivery attempt.                                                   *)
(*                                                                         *)
(* Amounts are integers (the REAL columns hold whole units here).  The     *)
(* columns course, year and photo are written and never read by anything   *)
(* modelled; they are left out of the student rows.                        *)
(***************************************************************************)
EXTENDS Integers, Sequences, FiniteSets, TLC

\* ---------------------------------------------------------------- bounds
\* AUTOINCREMENT keys handed out at most (students / fees).
MaxStudentIds == 2
MaxFees == 2

\* Request threads of the server.
Threads == {1, 2}

\* ------------------------------------------------------- program constants
\* float(request.form.get('total_fee') or 20000)
DefaultTotalFee == 20000

\* ------------------------------------------------------------ input sets
Num(n) == [kind |-> "num", val |-> n]
EmptyField == [kind |-> "empty"]
BadField == [kind |-> "bad"]

Rolls == {"", "R1"}

\* The fields of the admission / edit form besides the roll.
StudentForms ==
  { [name |-> "N", email |-> "E", phone |-> "P", total_fee |-> Num(2)],
    [name |-> "",  email |-> "",  phone |-> "",  total_fee |-> Num(-1)],
    [name |-> "N", email |-> "",  phone |-> "P", total_fee |-> EmptyField],
    [name |-> "N", email |-> "E", phone |-> "",  total_fee |-> Num(0)],
    [name |-> "N", email |-> "E", phone |-> "P", total_fee |-> BadField] }

AmountFields == {Num(-1), Num(0), Num(1), BadField}
Modes == {"cash"}
Remarks == {""}

\* The well-formed inputs the threaded specifications draw from.
CoreForms == { f \in StudentForms : f.total_fee \in {Num(2), Num(-1)} }
CoreAmounts == {Num(-1), Num(1)}

\* ------------------------------------------------------------------ state
VARIABLES
  students,     \* table students: id -> row
  fees,         \* table fees: id -> row
  seqStudents,  \* sqlite_sequence of students (AUTOINCREMENT)
  seqFees,      \* sqlite_sequence of fees
  clock,        \* the server's clock: seconds since it started
  req,          \* per thread: the request it is handling and where it is
  resp,         \* the response that left the server in the last step, if one did
  hist          \* per thread: the balances the ledger has gone through since
                \* the thread's export read its student list (history only)

vars == <<students, fees, seqStudents, seqFees, clock, req, resp, hist>>
db == <<students, fees, seqStudents, seqFees>>

Idle == [pc |-> "idle"]
NoResponse == [op |-> "none"]

\* ------------------------------------------------------------ conversions
\* float(text): a number, or ValueError (here: an empty sequence).
Float(field) == IF field.kind = "num" THEN <<field.val>> ELSE <<>>

\* float(form.get('total_fee') or 20000): an empty field takes the default.
TotalFeeOf(field) ==
  IF field.kind = "empty" THEN <<DefaultTotalFee>> ELSE Float(field)

\* Python truthiness of a text field: `if phone:`.
Truthy(text) == text # ""

\* ---------------------------------------------------------------- calendar
\* The calendar the clock runs through (a short one: every field turns over).
SecondsPerDay == 2
DaysPerMonth == 2

\* datetime.now(): the clock reading as calendar fields.
datetime_now(c) ==
  [month |-> (c \div (SecondsPerDay * DaysPerMonth)) + 1,
   day |-> ((c \div SecondsPerDay) % DaysPerMonth) + 1,
   time |-> c % SecondsPerDay]

DateTimeFormat == "%Y-%m-%d %H:%M:%S"
DateFormat == "%Y-%m-%d"
MonthFormat == "%Y-%m"

\* strftime: the text of a datetime, as the sequence of its fixed-width
\* fields (year and month are one field).
strftime(dt, format) ==
  IF format = DateTimeFormat THEN <<dt.month, dt.day, dt.time>>
  ELSE IF format = DateFormat THEN <<dt.month, dt.day>>
  ELSE <<dt.month>>

\* Like comparing the first field only (the month).
LikeFirstField(text, prefix) ==
  /\ Len(text) >= 1
  /\ Len(prefix) >= 1
  /\ text[1] = prefix[1]

\* text LIKE prefix || '%'   (the prefix holds no wildcard)
Like(text, prefix) ==
  /\ Len(text) >= Len(prefix)
  /\ SubSeq(text, 1, Len(prefix)) = prefix

\* --------------------------------------------------------------- SQL reads
\* SUM(amount) over a set of fee ids: NULL (<<>>) over no rows.
RECURSIVE SumRows(_, _)
SumRows(fs, ids) ==
  IF ids = {} THEN 0
  ELSE LET i == CHOOSE x \in ids : TRUE
       IN fs[i].amount + SumRows(fs, ids \ {i})

SqlSum(fs, ids) == IF ids = {} THEN <<>> ELSE <<SumRows(fs, ids)>>

IfNull(x, d) == IF x = <<>> THEN d ELSE x[1]

\* PaidQuery without its WHERE clause.
PaidQueryAll(fs, sid) == IfNull(SqlSum(fs, DOMAIN fs), 0)

\* SELECT IFNULL(SUM(amount),0) FROM fees WHERE student_id=?
PaidQuery(fs, sid) ==
  IfNull(SqlSum(fs, {i \in DOMAIN fs : fs[i].student_id = sid}), 0)

\* ByRoll falling back to every student when the roll matches none.
ByRollLoose(studs, roll) ==
  LET exact == {i \in DOMAIN studs : studs[i].roll_no = roll}
  IN IF exact = {} THEN DOMAIN studs ELSE exact

\* SELECT ... FROM students WHERE roll_no=?  (roll_no is UNIQUE: 0 or 1 row)
ByRoll(studs, roll) == {i \in DOMAIN studs : studs[i].roll_no = roll}

\* (s['total_fee'] or 0)
OrZero(x) == IF x = 0 THEN 0 ELSE x

\* student_profile: paid and due of one student, read from one ledger state.
student_profile(studs, fs, sid) ==
  LET paid == PaidQuery(fs, sid)
  IN [total_fee |-> studs[sid].total_fee,
      paid |-> paid,
      due |-> OrZero(studs[sid].total_fee) - paid]

\* ------------------------------------------------------------- connection
\* What a request holds of its sqlite3 connection: conn.in_transaction.
get_db == [in_transaction |-> FALSE]

\* An INSERT opens a transaction on the connection.
execute(conn) == [conn EXCEPT !.in_transaction = TRUE]

\* (commit_skipped: the request going on without conn.commit().)
commit_skipped(conn) == conn

\* conn.commit()
commit(conn) == [conn EXCEPT !.in_transaction = FALSE]

\* ---------------------------------------------------------- key allocation
\* (NextRowidPlain: the key of INTEGER PRIMARY KEY without AUTOINCREMENT,
\* one above the largest key in the table.)
NextRowidPlain(table, seq) ==
  IF DOMAIN table = {} THEN 1
  ELSE (CHOOSE m \in DOMAIN table : \A k \in DOMAIN table : k <= m) + 1

\* id INTEGER PRIMARY KEY AUTOINCREMENT: one above the largest key the
\* table ever held, which sqlite_sequence keeps.
NextRowid(table, seq) == seq + 1

\* ------------------------------------------------------------------- Init
Init ==
  /\ students = << >>
  /\ fees = << >>
  /\ seqStudents = 0
  /\ seqFees = 0
  /\ clock = 0
  /\ req = [t \in Threads |-> Idle]
  /\ resp = NoResponse
  /\ hist = [t \in Threads |-> {}]

\* The threads are interchangeable: a request that arrives while both are
\* free is taken by the first.
Free(t) ==
  /\ req[t].pc = "idle"
  /\ \A u \in Threads : (u < t) => req[u].pc # "idle"

\* ---------------------------------------------------------- notifications
\* (DeliverUnguarded: the delivery without its `if <address>:` guard.)
\* One guarded delivery inside the request's try block:
\*     if <address>: send_xxx(<address>, ...)
\* `raised` is whether the delivery call raised.  An empty address makes no
\* attempt; an exception leaves the try block for its handler (a print) and
\* the request goes on to its response.
DeliverUnguarded(r, channel, address, raised, next) ==
  IF raised
  THEN [r EXCEPT !.pc = "respond", ![channel] = @ + 1, !.logged = TRUE]
  ELSE [r EXCEPT !.pc = next, ![channel] = @ + 1]

\* (DeliverRetry: a delivery that raised is tried a second time.)
DeliverRetry(r, channel, address, raised, next) ==
  IF ~Truthy(address)
  THEN [r EXCEPT !.pc = next]
  ELSE IF raised
       THEN [r EXCEPT !.pc = "respond", ![channel] = @ + 2, !.logged = TRUE]
       ELSE [r EXCEPT !.pc = next, ![channel] = @ + 1]

Deliver(r, channel, address, raised, next) ==
  IF ~Truthy(address)
  THEN [r EXCEPT !.pc = next]
  ELSE IF raised
       THEN [r EXCEPT !.pc = "respond", ![channel] = @ + 1, !.logged = TRUE]
       ELSE [r EXCEPT !.pc = next, ![channel] = @ + 1]

\* The provider call: returns (FALSE), or raises (TRUE).
send_sms == {FALSE, TRUE}
send_email == {FALSE, TRUE}

\* (TryBlockSeparate: each delivery in a try block of its own.)
TryBlockSeparate(r, smsRaised, mailRaised) ==
  LET r1 == Deliver(r, "sms", r.phone, smsRaised, "email")
  IN Deliver([r1 EXCEPT !.pc = "email"], "mail", r1.email, mailRaised, "respond")

\* The two guarded deliveries of a try block, in order: the second is
\* reached only if the first did not raise.
TryBlock(r, smsRaised, mailRaised) ==
  LET r1 == Deliver(r, "sms", r.phone, smsRaised, "email")
  IN IF r1.pc = "email"
     THEN Deliver(r1, "mail", r1.email, mailRaised, "respond")
     ELSE r1

\* Notified with the delivery's exception escaping the request.
NotifiedUncaught(r) ==
  [op |-> r.op, result |-> IF r.logged THEN "ServerError" ELSE "ok",
   id |-> r.id, sms |-> r.sms, mail |-> r.mail, logged |-> r.logged]

\* The response of a request that went through its notification block.
Notified(r) ==
  [op |-> r.op, result |-> "ok", id |-> r.id,
   sms |-> r.sms, mail |-> r.mail, logged |-> r.logged]

\* ---------------------------------------------------------------- admission
\* The INSERT with no UNIQUE constraint on roll_no.
InsertStudentNoUnique(studs, roll) == TRUE

\* INSERT INTO students ...: the UNIQUE constraint on roll_no.
InsertStudentOk(studs, roll) == ByRoll(studs, roll) = {}

\* The row the INSERT INTO students writes.
StudentRow(roll, form, fee) ==
  [name |-> form.name, roll_no |-> roll, email |-> form.email,
   phone |-> form.phone, total_fee |-> fee]

\* POST /admission up to conn.commit().
AdmissionPost(t, roll, form) ==
  /\ Free(t)
  /\ LET fee == TotalFeeOf(form.total_fee)
     IN IF fee = <<>>
        THEN \* ValueError at float(): the request dies before any SQL
             /\ resp' = [op |-> "admission", result |-> "ServerError"]
             /\ UNCHANGED <<db, req>>
        ELSE IF ~InsertStudentOk(students, roll)
        THEN \* sqlite3.IntegrityError -> "Roll number already exists!"
             /\ resp' = [op |-> "admission", result |-> "DuplicateKey",
                         roll |-> roll]
             /\ UNCHANGED <<db, req>>
        ELSE /\ seqStudents < MaxStudentIds
             /\ LET id == NextRowid(students, seqStudents)
                IN /\ students' = (id :> StudentRow(roll, form, fee[1])) @@ students
                   /\ seqStudents' = id
                   /\ req' = [req EXCEPT ![t] =
                               [pc |-> "sms", op |-> "admission", id |-> id,
                                phone |-> form.phone, email |-> form.email,
                                sms |-> 0, mail |-> 0, logged |-> FALSE,
                                in_transaction |->
                                  commit(execute(get_db)).in_transaction]]
             /\ resp' = NoResponse
             /\ UNCHANGED <<fees, seqFees>>
  /\ UNCHANGED clock

\* The notification block and the response:
\*     try:
\*         if phone: send_sms(phone, "Welcome ...")
\*         if email: send_email(email, "Admission Successful", ...)
\*     except Exception as e: print(...)
\*     return redirect(url_for('students'))
AdmissionNotify(t) ==
  /\ req[t].pc = "sms" /\ req[t].op = "admission"
  /\ \E smsRaised \in send_sms, mailRaised \in send_email :
       resp' = Notified(TryBlock(req[t], smsRaised, mailRaised))
  /\ req' = [req EXCEPT ![t] = Idle]
  /\ UNCHANGED <<db, clock>>

\* -------------------------------------------------------------------- fees
\* POST /fees up to the SELECT of the student by roll.
FeesPost(t, roll, amountField, mode, remark) ==
  /\ Free(t)
  /\ LET amount == Float(amountField)
         found == ByRoll(students, roll)
     IN IF amount = <<>>
        THEN /\ resp' = [op |-> "fees", result |-> "ServerError"]
             /\ UNCHANGED req
        ELSE IF found = {}
        THEN \* "Roll number not found!"
             /\ resp' = [op |-> "fees", result |-> "NotFound", roll |-> roll,
                         sms |-> 0, mail |-> 0]
             /\ UNCHANGED req
        ELSE LET sid == CHOOSE i \in found : TRUE
             IN /\ req' = [req EXCEPT ![t] =
                            [pc |-> "insert", op |-> "fees", roll |-> roll,
                             student_id |-> sid, amount |-> amount[1],
                             mode |-> mode, remark |-> remark,
                             phone |-> students[sid].phone,
                             email |-> students[sid].email]]
                /\ resp' = NoResponse
  /\ UNCHANGED <<db, clock>>

\* The row the INSERT INTO fees writes.
FeeRow(r, date) ==
  [student_id |-> r.student_id, amount |-> r.amount, date |-> date,
   mode |-> r.mode, remark |-> r.remark]

\* INSERT INTO fees ...; conn.commit(); fee_id = c.lastrowid
FeesInsert(t) ==
  /\ req[t].pc = "insert"
  /\ seqFees < MaxFees
  /\ LET id == NextRowid(fees, seqFees)
     IN /\ fees' = (id :> FeeRow(req[t], strftime(datetime_now(clock), DateTimeFormat))) @@ fees
        /\ seqFees' = id
        /\ req' = [req EXCEPT ![t] =
                    [pc |-> "sms", op |-> "fees", id |-> id,
                     phone |-> @.phone, email |-> @.email,
                     sms |-> 0, mail |-> 0, logged |-> FALSE,
                     in_transaction |-> commit(execute(get_db)).in_transaction]]
  /\ resp' = NoResponse
  /\ UNCHANGED <<students, seqStudents, clock>>

\* The notification block and the response:
\*     try:
\*         if student_phone: send_sms(student_phone, "... fees received ...")
\*         if student_email: send_email(student_email, "Fees Receipt", ...)
\*     except Exception as e: print(...)
\*     return redirect(url_for('receipt', fee_id=fee_id))
FeesNotify(t) ==
  /\ req[t].pc = "sms" /\ req[t].op = "fees"
  /\ \E smsRaised \in send_sms, mailRaised \in send_email :
       resp' = Notified(TryBlock(req[t], smsRaised, mailRaised))
  /\ req' = [req EXCEPT ![t] = Idle]
  /\ UNCHANGED <<db, clock>>

\* ------------------------------------------------------------- edit_student
\* The UPDATE with roll_no in its SET list (cleared, the form has none).
UpdateStudentRoll(studs, sid, form, fee) ==
  [i \in DOMAIN studs |->
     IF i = sid
     THEN [studs[i] EXCEPT !.name = form.name, !.email = form.email,
                           !.phone = form.phone, !.total_fee = fee,
                           !.roll_no = ""]
     ELSE studs[i]]

\* UPDATE students SET name=?, course=?, year=?, email=?, phone=?, total_fee=?
\* WHERE id=?   (no row matches an absent id; roll_no is not in the SET list)
UpdateStudent(studs, sid, form, fee) ==
  [i \in DOMAIN studs |->
     IF i = sid
     THEN [studs[i] EXCEPT !.name = form.name, !.email = form.email,
                           !.phone = form.phone, !.total_fee = fee]
     ELSE studs[i]]

\* POST /student/<id>/edit
EditStudent(t, sid, form) ==
  /\ Free(t)
  /\ LET fee == TotalFeeOf(form.total_fee)
     IN IF fee = <<>>
        THEN /\ resp' = [op |-> "edit", result |-> "ServerError"]
             /\ UNCHANGED students
        ELSE /\ students' = UpdateStudent(students, sid, form, fee[1])
             /\ resp' = [op |-> "edit", result |-> "ok", id |-> sid]
  /\ UNCHANGED <<fees, seqStudents, seqFees, clock, req>>

\* ----------------------------------------------------------- delete_student
\* delete_student without its first DELETE.
DeleteFeesOfNone(fs, sid) == fs

\* The first DELETE without its WHERE clause.
DeleteFeesAll(fs, sid) == << >>

\* DELETE FROM fees WHERE student_id=?
DeleteFeesOf(fs, sid) ==
  [i \in {j \in DOMAIN fs : fs[j].student_id # sid} |-> fs[i]]

\* DELETE FROM students WHERE id=?
DeleteStudentRow(studs, sid) ==
  [i \in DOMAIN studs \ {sid} |-> studs[i]]

\* POST /student/<id>/delete: both DELETEs, then one commit.
DeleteStudent(t, sid) ==
  /\ Free(t)
  /\ fees' = DeleteFeesOf(fees, sid)
  /\ students' = DeleteStudentRow(students, sid)
  /\ resp' = [op |-> "delete", result |-> "ok", id |-> sid]
  /\ UNCHANGED <<seqStudents, seqFees, clock, req>>

\* -------------------------------------------------------------- export_dues
\* SELECT id, ..., total_fee FROM students ORDER BY id
RECURSIVE OrderById(_, _)
OrderById(studs, ids) ==
  IF ids = {} THEN <<>>
  ELSE LET m == CHOOSE x \in ids : \A y \in ids : x <= y
       IN <<[id |-> m, total_fee |-> studs[m].total_fee]>>
            \o OrderById(studs, ids \ {m})

\* GET /export/dues: the first connection reads the student list.
ExportList(t) ==
  /\ Free(t)
  /\ LET list == OrderById(students, DOMAIN students)
     IN IF list = <<>>
        THEN /\ resp' = [op |-> "export_dues", result |-> "ok", thread |-> t,
                         rows |-> <<>>]
             /\ UNCHANGED req
        ELSE /\ req' = [req EXCEPT ![t] =
                         [pc |-> "rows", op |-> "export_dues",
                          todo |-> list, rows |-> <<>>]]
             /\ resp' = NoResponse
  /\ UNCHANGED <<db, clock>>

\* The row written for a listed student s from the fees as they are now.
DuesRow(s, fs) ==
  LET paid == PaidQuery(fs, s.id)
  IN [id |-> s.id, total_fee |-> s.total_fee, paid |-> paid,
      due |-> OrZero(s.total_fee) - paid]

\* One turn of `for s in students:` on the second connection; after the last
\* turn the document is sent.
ExportRow(t) ==
  /\ req[t].pc = "rows"
  /\ LET s == Head(req[t].todo)
         rest == Tail(req[t].todo)
         rows == Append(req[t].rows, DuesRow(s, fees))
     IN IF rest = <<>>
        THEN /\ resp' = [op |-> "export_dues", result |-> "ok", thread |-> t,
                         rows |-> rows]
             /\ req' = [req EXCEPT ![t] = Idle]
        ELSE /\ req' = [req EXCEPT ![t] = [@ EXCEPT !.todo = rest, !.rows = rows]]
             /\ resp' = NoResponse
  /\ UNCHANGED <<db, clock>>

\* ------------------------------------------------------------------- clock
\* The clock may run this far.
MaxClock == 2

\* A second passes.
Tick ==
  /\ clock < MaxClock
  /\ clock' = clock + 1
  /\ resp' = NoResponse
  /\ UNCHANGED <<db, req>>

\* --------------------------------------------- dashboard and fees_summary
\* SELECT IFNULL(SUM(amount),0) FROM fees
total_collection(fs) == IfNull(SqlSum(fs, DOMAIN fs), 0)

\* SELECT IFNULL(SUM(amount),0) FROM fees WHERE date LIKE ?   (prefix + "%")
CollectionLike(fs, prefix) ==
  IfNull(SqlSum(fs, {i \in DOMAIN fs : Like(fs[i].date, prefix)}), 0)

\* GET /: SELECT COUNT(*) FROM students
DashboardCount(t) ==
  /\ Free(t)
  /\ req' = [req EXCEPT ![t] =
              [pc |-> "total", op |-> "dashboard",
               total_students |-> Cardinality(DOMAIN students)]]
  /\ resp' = NoResponse
  /\ UNCHANGED <<db, clock>>

\* GET /reports/fees-summary begins at the all-time SELECT.
SummaryStart(t) ==
  /\ Free(t)
  /\ req' = [req EXCEPT ![t] =
              [pc |-> "today", op |-> "fees_summary",
               total |-> total_collection(fees)]]
  /\ resp' = NoResponse
  /\ UNCHANGED <<db, clock>>

\* dashboard: the all-time SELECT.
DashboardTotal(t) ==
  /\ req[t].pc = "total"
  /\ req' = [req EXCEPT ![t] =
              [pc |-> "today", op |-> "dashboard",
               total_students |-> @.total_students,
               total |-> total_collection(fees)]]
  /\ resp' = NoResponse
  /\ UNCHANGED <<db, clock>>

\* today = datetime.now().strftime("%Y-%m-%d")   (both handlers)
ReadToday(t) ==
  /\ req[t].pc = "today"
  /\ req' = [req EXCEPT ![t] =
              [pc |-> "today_sum"] @@
              [today |-> strftime(datetime_now(clock), DateFormat)] @@ @]
  /\ resp' = NoResponse
  /\ UNCHANGED <<db, clock>>

\* The SELECT ... WHERE date LIKE today + "%".  fees_summary responds after
\* it; the dashboard goes on to the month.
SumToday(t) ==
  /\ req[t].pc = "today_sum"
  /\ LET sum == CollectionLike(fees, req[t].today)
     IN IF req[t].op = "fees_summary"
        THEN /\ resp' = [op |-> "fees_summary", result |-> "ok",
                         total |-> req[t].total, today_total |-> sum]
             /\ req' = [req EXCEPT ![t] = Idle]
        ELSE /\ req' = [req EXCEPT ![t] =
                         [pc |-> "month", op |-> "dashboard",
                          total_students |-> @.total_students,
                          total |-> @.total, today_collection |-> sum]]
             /\ resp' = NoResponse
  /\ UNCHANGED <<db, clock>>

\* month = datetime.now().strftime("%Y-%m")
ReadMonth(t) ==
  /\ req[t].pc = "month"
  /\ req' = [req EXCEPT ![t] =
              [pc |-> "month_sum"] @@
              [month |-> strftime(datetime_now(clock), MonthFormat)] @@ @]
  /\ resp' = NoResponse
  /\ UNCHANGED <<db, clock>>

\* The SELECT ... WHERE date LIKE month + "%", and the page.
SumMonth(t) ==
  /\ req[t].pc = "month_sum"
  /\ resp' = [op |-> "dashboard", result |-> "ok",
              total_students |-> req[t].total_students,
              total_collection |-> req[t].total,
              today_collection |-> req[t].today_collection,
              month_collection |-> CollectionLike(fees, req[t].month)]
  /\ req' = [req EXCEPT ![t] = Idle]
  /\ UNCHANGED <<db, clock>>

\* ----------------------------------------------------------------- receipt
\* SELECT fees.*, students.name, students.roll_no, ...
\* FROM fees JOIN students ON fees.student_id = students.id WHERE fees.id=?
\* (0 or 1 row: the inner join drops an entry whose student is absent)
ReceiptQuery(studs, fs, fee_id) ==
  IF fee_id \in DOMAIN fs /\ fs[fee_id].student_id \in DOMAIN studs
  THEN <<[id |-> fee_id] @@ fs[fee_id] @@
         [name |-> studs[fs[fee_id].student_id].name,
          roll_no |-> studs[fs[fee_id].student_id].roll_no]>>
  ELSE <<>>

\* Whether the PDF library was importable when the server started.
REPORTLAB_AVAILABLE == {FALSE, TRUE}

\* GET /receipt/<fee_id> (view = "receipt") and GET /receipt/<fee_id>/pdf
\* (view = "receipt_pdf", which needs the PDF library).
Receipt(t, view, fee_id, available) ==
  /\ Free(t)
  /\ IF view = "receipt_pdf" /\ ~available
     THEN resp' = [op |-> view, result |-> "Unavailable", id |-> fee_id]
     ELSE LET r == ReceiptQuery(students, fees, fee_id)
          IN IF r = <<>>
             THEN resp' = [op |-> view, result |-> "NotFound", id |-> fee_id]
             ELSE resp' = [op |-> view, result |-> "ok", id |-> fee_id,
                           r |-> r[1]]
  /\ UNCHANGED <<db, clock, req>>

\* -------------------------------------------------------------- dues_report
\* GET /reports/dues with no query: paid and due per student, from the
\* ledger as it is.
dues_report(studs, fs) ==
  [s \in DOMAIN studs |->
     LET paid == PaidQuery(fs, s)
     IN [paid |-> paid, due |-> OrZero(studs[s].total_fee) - paid]]

\* ------------------------------------------------------------- history only
\* What student_profile reports for each of the given students that exists.
Figures(studs, fs, ids) ==
  {[id |-> i] @@ student_profile(studs, fs, i) : i \in ids \cap DOMAIN studs}

Listed(r) == {r.todo[k].id : k \in 1..Len(r.todo)} \cup
             {r.rows[k].id : k \in 1..Len(r.rows)}

\* hist[t]: the figures of the students an export listed, in every ledger
\* state from the listing to the last row.
HistNext ==
  hist' = [t \in Threads |->
            IF req[t].pc = "rows"
            THEN hist[t] \cup Figures(students', fees', Listed(req[t]))
            ELSE IF req'[t].pc = "rows"
                 THEN Figures(students', fees', Listed(req'[t]))
                 ELSE {}]

\* ------------------------------------------------------------------- Next
\* The requests that write the ledger, with their inputs from the given sets.
Requests(t, forms, amounts) ==
  \/ \E roll \in Rolls, form \in forms : AdmissionPost(t, roll, form)
  \/ AdmissionNotify(t)
  \/ \E sid \in 1..MaxStudentIds, form \in forms : EditStudent(t, sid, form)
  \/ \E sid \in 1..MaxStudentIds : DeleteStudent(t, sid)
  \/ \E roll \in Rolls, a \in amounts, m \in Modes, r \in Remarks :
       FeesPost(t, roll, a, m, r)
  \/ FeesInsert(t)
  \/ FeesNotify(t)

\* The server with its request threads.
Next ==
  /\ \E t \in Threads : Requests(t, CoreForms, CoreAmounts)
  /\ UNCHANGED hist

Spec == Init /\ [][Next]_vars

\* The same server, also serving the dues export.
ExportAmounts == { Num(1) }

NextExport ==
  /\ \E t \in Threads :
       \/ Requests(t, CoreForms, ExportAmounts)
       \/ ExportList(t)
       \/ ExportRow(t)
  /\ HistNext

SpecExport == Init /\ [][NextExport]_vars

\* One request at a time, over every input, malformed ones included.
NextSerial ==
  /\ Requests(1, StudentForms, AmountFields)
  /\ UNCHANGED hist

SpecSerial == Init /\ [][NextSerial]_vars

\* The server with the clock running, also serving the dashboard and the
\* fees summary.
ClockAmounts == { Num(1) }
ClockForms == { f \in StudentForms : f.total_fee = Num(2) }

NextClock ==
  /\ \/ Tick
     \/ \E t \in Threads :
          \/ Requests(t, ClockForms, ClockAmounts)
          \/ DashboardCount(t)
          \/ DashboardTotal(t)
          \/ SummaryStart(t)
          \/ ReadToday(t)
          \/ SumToday(t)
          \/ ReadMonth(t)
          \/ SumMonth(t)
  /\ UNCHANGED hist

SpecClock == Init /\ [][NextClock]_vars

\* The server also serving receipts.
ReceiptViews == {"receipt", "receipt_pdf"}

NextReceipt ==
  /\ \E t \in Threads :
       \/ Requests(t, CoreForms, ExportAmounts)
       \/ \E view \in ReceiptViews, fee_id \in 1..MaxFees,
             available \in REPORTLAB_AVAILABLE :
            Receipt(t, view, fee_id, available)
  /\ UNCHANGED hist

SpecReceipt == Init /\ [][NextReceipt]_vars

\* =============================================================== properties
\* Thread t takes this step.
Steps(t) == req'[t] # req[t]

\* Thread t commits a payment in this step (FeesInsert).
CommitsPayment(t) == req[t].pc = "insert" /\ req'[t].pc = "sms"

\* The sum of the amounts of the fee entries of student sid, entry by entry
\* over the keys handed out so far.
RECURSIVE AmountsOf(_, _, _)
AmountsOf(fs, sid, n) ==
  IF n = 0 THEN 0
  ELSE (IF n \in DOMAIN fs /\ fs[n].student_id = sid THEN fs[n].amount ELSE 0)
         + AmountsOf(fs, sid, n - 1)

DueOf(studs, fs, sid) == student_profile(studs, fs, sid).due

\* ----------------------------------------------------------------------- C1
DueIsDerived ==
  \A s \in DOMAIN students :
    DueOf(students, fees, s) = students[s].total_fee - AmountsOf(fees, s, seqFees)

PaymentLowersDue ==
  \A t \in Threads :
    CommitsPayment(t) =>
      /\ req[t].student_id \in DOMAIN students =>
           DueOf(students', fees', req[t].student_id)
             = DueOf(students, fees, req[t].student_id) - req[t].amount
      /\ \A o \in DOMAIN students \ {req[t].student_id} :
           DueOf(students', fees', o) = DueOf(students, fees, o)

\* C1: in every state the due reported for an existing student is its
\* total_fee minus the sum of the amounts of its fee entries, and a payment
\* of A committed against S takes due(S) from d to d - A and leaves the due
\* of every other student as it was.
C1_DueDerivedAndLowered == [][DueIsDerived' /\ PaymentLowersDue]_vars

\* A second payment has just been committed against a student who exists
\* beside another student; both payments count in its balance.
C1_Witness ==
  \E t \in Threads :
    /\ req[t].pc = "sms" /\ req[t].op = "fees"
    /\ Cardinality(DOMAIN students) = 2
    /\ LET s == fees[req[t].id].student_id
       IN /\ s \in DOMAIN students
          /\ Cardinality({f \in DOMAIN fees : fees[f].student_id = s}) = 2
          /\ student_profile(students, fees, s).paid = 2
          /\ DueOf(students, fees, s) = students[s].total_fee - 2

\* ----------------------------------------------------------------------- C2
\* C2: a payment request whose amount is zero or negative inserts no fee
\* entry and leaves paid and due of every student as they were.
C2_NonPositiveRejected ==
  [][\A t \in Threads :
       (Steps(t) /\ req[t].pc = "insert" /\ req[t].amount <= 0) =>
         /\ fees' = fees
         /\ \A s \in DOMAIN students :
              student_profile(students', fees', s) = student_profile(students, fees, s)]_vars

\* ----------------------------------------------------------------------- C3
\* C3: every fee entry in the store has the id of an existing student as its
\* student_id, under every interleaving of payment and delete requests.
C3_NoOrphanEntry ==
  \A f \in DOMAIN fees : fees[f].student_id \in DOMAIN students

\* ----------------------------------------------------------------------- C4
UniqueRolls ==
  \A a, b \in DOMAIN students :
    a # b => students[a].roll_no # students[b].roll_no

\* The duplicate-key response is given for a roll that is taken, and nothing
\* is written.
DuplicateRefused ==
  (resp'.op = "admission" /\ resp'.result = "DuplicateKey") =>
    /\ ByRoll(students, resp'.roll) # {}
    /\ students' = students /\ fees' = fees

\* A step that creates a student creates it under a roll no student had, and
\* writes nothing else.
CreatesFreshRoll ==
  \A n \in DOMAIN students' \ DOMAIN students :
    /\ \A o \in DOMAIN students : students[o].roll_no # students'[n].roll_no
    /\ \A o \in DOMAIN students : o \in DOMAIN students' /\ students'[o] = students[o]
    /\ fees' = fees

\* C4: an admission under the roll_no of an existing student is refused with
\* the duplicate-key response, creates no student and changes neither the
\* existing students nor the fee entries; no two students share a roll_no.
C4_DuplicateRollRefused ==
  [][DuplicateRefused /\ CreatesFreshRoll /\ UniqueRolls']_vars

\* An admission has just been refused as a duplicate of an existing student.
C4_Witness ==
  /\ resp.op = "admission" /\ resp.result = "DuplicateKey"
  /\ ByRoll(students, resp.roll) # {}

\* ----------------------------------------------------------------------- C5
\* C5: the step of delete_student on an existing student leaves the student
\* absent and no fee entry with its id, and changes no other student and no
\* fee entry of another student.
C5_DeleteCascades ==
  [][(resp'.op = "delete" /\ resp'.id \in DOMAIN students) =>
       /\ resp'.id \notin DOMAIN students'
       /\ \A f \in DOMAIN fees' : fees'[f].student_id # resp'.id
       /\ DOMAIN students' = DOMAIN students \ {resp'.id}
       /\ \A o \in DOMAIN students' : students'[o] = students[o]
       /\ DOMAIN fees' \subseteq DOMAIN fees
       /\ \A f \in DOMAIN fees :
            fees[f].student_id # resp'.id =>
              f \in DOMAIN fees' /\ fees'[f] = fees[f]]_vars

\* A student who had a fee entry has just been deleted; the other student
\* and its fee entry are still there.
C5_Witness ==
  /\ resp.op = "delete"
  /\ resp.id \notin DOMAIN students /\ resp.id <= seqStudents
  /\ seqFees = 2 /\ Cardinality(DOMAIN fees) = 1
  /\ \A f \in DOMAIN fees :
       fees[f].student_id \in DOMAIN students /\ fees[f].student_id # resp.id
\* ----------------------------------------------------------------------- C6
\* Thread t runs its notification block and responds in this step.
Notifies(t) == req[t].pc = "sms" /\ Steps(t)

\* The reference a request keeps for its response is the fee entry (the
\* student) it committed.
CommitKeepsReference ==
  \A t \in Threads :
    /\ CommitsPayment(t) =>
         /\ req'[t].id \notin DOMAIN fees
         /\ req'[t].id \in DOMAIN fees'
         /\ fees'[req'[t].id] = FeeRow(req[t], strftime(datetime_now(clock), DateTimeFormat))
    /\ (req[t].pc = "idle" /\ req'[t].pc = "sms") =>
         /\ req'[t].id \notin DOMAIN students
         /\ req'[t].id \in DOMAIN students'

\* C6: once a payment has committed its fee entry (or an admission its
\* student), the notification step, whatever its deliveries do, ends in the
\* success response carrying the reference of what was committed, and
\* leaves the fee entries and the students as they were.
C6_NotificationIsolated ==
  [][/\ CommitKeepsReference
     /\ \A t \in Threads :
          Notifies(t) =>
            /\ resp'.op = req[t].op
            /\ resp'.result = "ok"
            /\ resp'.id = req[t].id
            /\ fees' = fees
            /\ students' = students]_vars

\* A payment whose delivery raised has been answered with success, and its
\* fee entry is in the ledger.
C6_Witness ==
  /\ resp.op = "fees" /\ resp.result = "ok" /\ resp.logged
  /\ resp.id \in DOMAIN fees

\* ----------------------------------------------------------------------- C7
\* C7: a payment against a student whose phone is empty makes no SMS
\* attempt, against a student whose email is empty no email attempt, and in
\* each case its fee entry is committed and the response is success.
C7_MissingChannelSkipped ==
  [][\A t \in Threads :
       (Notifies(t) /\ req[t].op = "fees") =>
         LET s == students[fees[req[t].id].student_id]
         IN /\ s.phone = "" => resp'.sms = 0
            /\ s.email = "" => resp'.mail = 0
            /\ resp'.result = "ok"
            /\ resp'.id \in DOMAIN fees']_vars

\* A payment against a student with no phone and an email address has been
\* answered with success after no SMS attempt and one email attempt.
C7_Witness ==
  /\ resp.op = "fees" /\ resp.result = "ok"
  /\ resp.sms = 0 /\ resp.mail = 1
  /\ resp.id \in DOMAIN fees
  /\ students[fees[resp.id].student_id].phone = ""
  /\ students[fees[resp.id].student_id].email # ""

\* ----------------------------------------------------------------------- C8
\* C8: each row of the dues export carries the Total Fee, Paid and Due that
\* student_profile reports for that student in one ledger state between the
\* export's reading of the student list and its writing of the last row.
C8_ExportRowsAreProfiles ==
  /\ \A t \in Threads :
       req[t].pc = "rows" =>
         \A k \in 1..Len(req[t].rows) : req[t].rows[k] \in hist[t]
  /\ resp.op = "export_dues" =>
       \A k \in 1..Len(resp.rows) : resp.rows[k] \in hist[resp.thread]

\* ----------------------------------------------------------------------- C9
\* C9: every student has a non-empty roll_no, a non-empty name and
\* total_fee >= 0.
C9_StudentFieldsValid ==
  \A s \in DOMAIN students :
    /\ students[s].roll_no # ""
    /\ students[s].name # ""
    /\ students[s].total_fee >= 0

\* ---------------------------------------------------------------------- C10
\* C10: a payment request whose roll matches no student is answered
\* not-found, with no fee entry inserted, no student changed, no delivery
\* attempted and nothing left to do; a request goes on to its INSERT only
\* for the student that has the roll it named.
C10_UnknownRollNotFound ==
  [][/\ (resp'.op = "fees" /\ resp'.result = "NotFound") =>
          /\ ByRoll(students, resp'.roll) = {}
          /\ fees' = fees /\ students' = students
          /\ resp'.sms = 0 /\ resp'.mail = 0
          /\ req' = req
     /\ \A t \in Threads :
          (req[t].pc = "idle" /\ req'[t].pc = "insert") =>
            /\ req'[t].student_id \in DOMAIN students
            /\ students[req'[t].student_id].roll_no = req'[t].roll]_vars

\* A payment has just been answered not-found while a student under another
\* roll exists.
C10_Witness ==
  /\ resp.op = "fees" /\ resp.result = "NotFound"
  /\ students # << >>
  /\ ByRoll(students, resp.roll) = {}

\* ---------------------------------------------------------------------- C11
\* The calendar day (month and day of the month) of a clock reading.
DayOf(c) == <<datetime_now(c).month, datetime_now(c).day>>

\* The sum of the amounts of the fee entries stamped on the given day, entry
\* by entry over the keys handed out so far.
RECURSIVE AmountsOn(_, _, _)
AmountsOn(fs, day, n) ==
  IF n = 0 THEN 0
  ELSE (IF n \in DOMAIN fs /\ <<fs[n].date[1], fs[n].date[2]>> = day
        THEN fs[n].amount ELSE 0)
         + AmountsOn(fs, day, n - 1)

\* C11: the day the dashboard (the fees summary) reads is the calendar day
\* of the clock at that moment, and its today collection is the sum of the
\* amounts of exactly the fee entries stamped on that day: 0 when there is
\* none, and no entry of another day counts.
C11_TodayCollection ==
  [][\A t \in Threads :
       /\ (req[t].pc = "today" /\ Steps(t)) =>
            req'[t].today = DayOf(clock)
       /\ (req[t].pc = "today_sum" /\ Steps(t)) =>
            LET sum == AmountsOn(fees, req[t].today, seqFees)
            IN IF req[t].op = "dashboard"
               THEN req'[t].today_collection = sum
               ELSE resp'.today_total = sum]_vars

\* The dashboard has summed today's entries while the ledger also holds an
\* entry of an earlier day: today's collection is neither 0 nor the total.
C11_Witness ==
  \E t \in Threads :
    /\ req[t].pc = "month"
    /\ req[t].today_collection = 1
    /\ total_collection(fees) = 2
    /\ AmountsOn(fees, DayOf(clock), seqFees) = 1
    /\ \E f \in DOMAIN fees : <<fees[f].date[1], fees[f].date[2]>> # DayOf(clock)

\* ---------------------------------------------------------------------- C12
\* C12: a student keeps the roll_no it has for as long as it exists (no step
\* changes it, and a student id is never handed out twice), and an edit
\* creates and removes no student and changes no fee entry.
C12_EditKeepsRoll ==
  [][/\ \A s \in DOMAIN students \cap DOMAIN students' :
          students'[s].roll_no = students[s].roll_no
     /\ \A s \in DOMAIN students' \ DOMAIN students : s > seqStudents
     /\ resp'.op = "edit" =>
          /\ DOMAIN students' = DOMAIN students
          /\ fees' = fees
          /\ seqStudents' = seqStudents]_vars

\* An edit has just rewritten the fields of a student admitted under roll
\* R1 (name, contact and total_fee are the edit's), and the roll is still R1.
C12_Witness ==
  /\ resp.op = "edit" /\ resp.result = "ok"
  /\ resp.id \in DOMAIN students
  /\ students[resp.id].roll_no = "R1"
  /\ students[resp.id].name = "" /\ students[resp.id].total_fee = -1
  /\ fees # << >>

\* ---------------------------------------------------------------------- C13
\* C13: delete_student on an id that no student has is answered not-found
\* and leaves the students and the fee entries as they were.
C13_DeleteAbsentNotFound ==
  [][(resp'.op = "delete" /\ resp'.id \notin DOMAIN students) =>
       /\ resp'.result = "NotFound"
       /\ students' = students
       /\ fees' = fees]_vars

\* ---------------------------------------------------------------------- C14
\* C14: edit_student on an id that no student has is answered not-found and
\* leaves the students and the fee entries as they were.
C14_EditAbsentNotFound ==
  [][(resp'.op = "edit" /\ resp'.id \notin DOMAIN students) =>
       /\ resp'.result = "NotFound"
       /\ students' = students
       /\ fees' = fees]_vars

\* ---------------------------------------------------------------------- C15
\* The delivery attempts a response reports.
Attempts(r) == IF "sms" \in DOMAIN r THEN r.sms + r.mail ELSE 0

\* The sequence that hands out the reference of a request's write.
SeqOf(op) == IF op = "fees" THEN seqFees ELSE seqStudents

\* Thread t commits its write in this step (admission or payment).
Commits(t) == req[t].pc # "sms" /\ req'[t].pc = "sms"

\* C15: deliveries are attempted only in the notification step of a request
\* whose write was committed in an earlier step and whose connection has no
\* transaction open; the committing step attempts none; and an admission or
\* payment answered without success (unknown roll, duplicate roll, bad
\* number) has written nothing and attempted nothing.
C15_NotifyAfterCommit ==
  [][/\ Attempts(resp') > 0 => \E t \in Threads : Notifies(t)
     /\ \A t \in Threads :
          /\ Notifies(t) =>
               /\ ~req[t].in_transaction
               /\ req[t].id <= SeqOf(req[t].op)
          /\ Commits(t) =>
               /\ db' # db
               /\ ~req'[t].in_transaction
               /\ resp' = NoResponse
     /\ (resp'.op \in {"fees", "admission"} /\ resp'.result # "ok") =>
          /\ db' = db
          /\ Attempts(resp') = 0
          /\ \A t \in Threads : req'[t] = req[t]]_vars

\* An admission has been answered after one SMS and one email attempt, and
\* its student is in the ledger.
C15_Witness ==
  /\ resp.op = "admission" /\ resp.result = "ok"
  /\ resp.sms = 1 /\ resp.mail = 1
  /\ resp.id \in DOMAIN students

\* ---------------------------------------------------------------------- C16
\* C16: the notification step of a request attempts each channel at most
\* once and ends the request (nothing of the event is kept to try again);
\* no other step attempts a delivery; and the events are distinct: a commit
\* takes a reference never handed out before, held by no other request.
C16_AtMostOneAttempt ==
  [][/\ Attempts(resp') > 0 => \E t \in Threads : Notifies(t)
     /\ \A t \in Threads :
          /\ Notifies(t) =>
               /\ resp'.sms <= 1 /\ resp'.mail <= 1
               /\ req'[t] = Idle
               /\ \A u \in Threads \ {t} : req'[u] = req[u]
          /\ Commits(t) =>
               /\ req'[t].id > SeqOf(req'[t].op)
               /\ \A u \in Threads \ {t} :
                    (req[u].pc = "sms" /\ req[u].op = req'[t].op) =>
                      req[u].id < req'[t].id]_vars

\* A payment whose SMS went out and whose email raised has been answered:
\* one attempt on each channel, the failed one not repeated.
C16_Witness ==
  /\ resp.op = "fees" /\ resp.result = "ok"
  /\ resp.sms = 1 /\ resp.mail = 1 /\ resp.logged
  /\ \A t \in Threads : req[t].pc # "sms"

\* ---------------------------------------------------------------------- C19
\* C19: whatever the two provider calls do, the notification step attempts
\* the email exactly when the request has an email address and the SMS was
\* skipped (no phone) or returned; when the SMS raises there is no email
\* attempt.
C19_SharedFailureGuard ==
  [][\A t \in Threads :
       Notifies(t) =>
         /\ \A smsRaised \in send_sms, mailRaised \in send_email :
              TryBlock(req[t], smsRaised, mailRaised).mail =
                IF Truthy(req[t].email) /\ (~Truthy(req[t].phone) \/ ~smsRaised)
                THEN 1 ELSE 0
         /\ \E smsRaised \in send_sms, mailRaised \in send_email :
              resp' = Notified(TryBlock(req[t], smsRaised, mailRaised))
         /\ resp'.mail = 1 => Truthy(req[t].email)
         /\ (resp'.sms = 1 /\ resp'.mail = 0 /\ Truthy(req[t].email)) =>
              resp'.logged]_vars

\* An admission of a student with a phone and an email has been answered
\* after its SMS raised: one SMS attempt, the error printed, no email attempt.
C19_Witness ==
  /\ resp.op = "admission" /\ resp.result = "ok"
  /\ resp.sms = 1 /\ resp.mail = 0 /\ resp.logged
  /\ resp.id \in DOMAIN students
  /\ students[resp.id].phone # "" /\ students[resp.id].email # ""

\* ---------------------------------------------------------------------- C17
\* C17: a fee entry that is in the ledger before and after a step is the
\* same row after it (student_id, amount, date, mode, remark), whatever the
\* step; an entry leaves the ledger only in a delete_student step on the id
\* that is its student_id; and a key that has left is never filled again.
C17_FeeEntriesImmutable ==
  [][/\ \A f \in DOMAIN fees \cap DOMAIN fees' : fees'[f] = fees[f]
     /\ \A f \in DOMAIN fees \ DOMAIN fees' :
          resp'.op = "delete" /\ resp'.id = fees[f].student_id
     /\ \A f \in DOMAIN fees' \ DOMAIN fees : f > seqFees]_vars

\* A student has just been deleted with its fee entry, while the entry of
\* another student, committed earlier, is still the row it was written as.
C17_Witness ==
  /\ resp.op = "delete"
  /\ seqFees = 2
  /\ DOMAIN fees = {1}
  /\ fees[1].student_id # resp.id
  /\ fees[1].amount = -1
  /\ Cardinality(DOMAIN students) = 1

\* ---------------------------------------------------------------------- C18
\* C18: a receipt request is answered with the receipt exactly when a fee
\* entry with the requested id is in the ledger, and then shows that entry
\* and its student's name and roll_no; and the fee entry id a successful
\* payment is answered with resolves to a receipt.
C18_ReceiptIffEntry ==
  /\ (resp.op \in ReceiptViews /\ resp.result # "Unavailable") =>
       /\ resp.result = "ok" <=> resp.id \in DOMAIN fees
       /\ resp.result = "ok" =>
            /\ [f \in DOMAIN fees[resp.id] |-> resp.r[f]] = fees[resp.id]
            /\ resp.r.name = students[fees[resp.id].student_id].name
            /\ resp.r.roll_no = students[fees[resp.id].student_id].roll_no
  /\ (resp.op = "fees" /\ resp.result = "ok") =>
       ReceiptQuery(students, fees, resp.id) # <<>>

\* ---------------------------------------------------------------------- C20
\* The sum of a function's values over a set of keys.
RECURSIVE SumOver(_, _)
SumOver(f, keys) ==
  IF keys = {} THEN 0
  ELSE LET k == CHOOSE x \in keys : TRUE
       IN f[k] + SumOver(f, keys \ {k})

\* C20: in every state the all-time collection of the dashboard is the sum,
\* over the students there are, of the paid figure of the dues report.
C20_TotalIsSumOfPaid ==
  total_collection(fees) =
    SumOver([s \in DOMAIN students |-> dues_report(students, fees)[s].paid],
            DOMAIN students)

\* ---------------------------------------------------------------------- C21
\* The fee entry ids that are in the ledger or held by a request as the
\* reference of the payment it committed.
FeeIdsKnown ==
  DOMAIN fees \cup
    {req[t].id : t \in {u \in Threads : req[u].pc = "sms" /\ req[u].op = "fees"}}

\* C21: a payment's commit takes a fee entry id above every id in the
\* ledger, every id held as a reference and every id handed out before
\* (commit order is id order); an id that has left the ledger with its
\* student never comes back; and for as long as the receipt query resolves
\* an id, it resolves it to the payment that was committed under it.
C21_FeeIdsNeverReused ==
  [][/\ seqFees' >= seqFees
     /\ DOMAIN fees' \subseteq 1..seqFees'
     /\ \A t \in Threads :
          CommitsPayment(t) =>
            /\ DOMAIN fees' \ DOMAIN fees = {req'[t].id}
            /\ \A i \in FeeIdsKnown \cup 1..seqFees : i < req'[t].id
            /\ fees'[req'[t].id] =
                 FeeRow(req[t], strftime(datetime_now(clock), DateTimeFormat))
     /\ \A i \in 1..seqFees :
          /\ i \notin DOMAIN fees => i \notin DOMAIN fees'
          /\ (i \in DOMAIN fees /\ ReceiptQuery(students', fees', i) # <<>>) =>
               LET r == ReceiptQuery(students', fees', i)[1]
               IN /\ r.id = i
                  /\ [f \in DOMAIN fees[i] |-> r[f]] = fees[i]]_vars

\* After the first fee entry left the ledger in the delete of its student,
\* a payment against another student has been committed under id 2, and the
\* receipt of id 1 resolves to nothing.
C21_Witness ==
  \E t \in Threads :
    /\ req[t].pc = "sms" /\ req[t].op = "fees" /\ req[t].id = 2
    /\ DOMAIN fees = {2}
    /\ fees[2].student_id \in DOMAIN students
    /\ ReceiptQuery(students, fees, 1) = <<>>
    /\ ReceiptQuery(students, fees, 2) # <<>>

====
